---- MODULE Spec2Model ----
(***************************************************************************)
(* Model of the blacklist server of Malicious-URL-Scanner: the per         *)
(* partition red-black memtables, the write-ahead logs, the index files    *)
(* and the request handlers of server_main.py.                             *)
(*                                                                         *)
(* Files are byte strings (sequences of 0..255).  Write-ahead logs are     *)
(* indexed by the number in their file name (partition{f}.bin), index      *)
(* directories by the number in their name (db/partition{d}), memtables    *)
(* and readers by their position in server.state.memtables/idx_readers.    *)
(***************************************************************************)
EXTENDS Integers, Sequences, FiniteSets, TLC

VARIABLES memtables, wal, db, resp, accepted, submitted, restarts, ingests, crashed,
          bloom_filter, added, known, filter_file, inserted, handlers, locks, batch

vars == <<memtables, wal, db, resp, accepted, submitted, restarts, ingests, crashed,
          bloom_filter, added, known, filter_file, inserted, handlers, locks, batch>>

(***************************************************************************)
(* Constants of the constants module (values from the specification).      *)
(* HASHES_PER_IDX is scaled down from 15625.                               *)
(***************************************************************************)
HASH_SIZE == 32
PREFIX_SIZE == 4
PARTITIONS == 4
HASHES_PER_IDX == 2

PARTITION_NUM(b) == b \div 64

(* Bounds of the model *)
MaxRestarts == 1
MaxIngests == 3

NIL == 0
None == 0 - 1

BAD_REQUEST == "Bad request: URL is already blacklisted"

(***************************************************************************)
(* Byte strings                                                            *)
(***************************************************************************)
Min(a, b) == IF a < b THEN a ELSE b

(* Python slice data[lo:hi] with 0-based, clamped, half-open bounds *)
Slice(data, lo, hi) ==
  LET h == Min(hi, Len(data))
  IN  IF lo >= h THEN <<>> ELSE SubSeq(data, lo + 1, h)

RECURSIVE LtFrom(_, _, _)
LtFrom(a, b, i) ==
  IF i > Len(b) THEN FALSE
  ELSE IF i > Len(a) THEN TRUE
  ELSE IF a[i] < b[i] THEN TRUE
  ELSE IF a[i] > b[i] THEN FALSE
  ELSE LtFrom(a, b, i + 1)

(* Python's order on bytes: lexicographic, a proper prefix is smaller *)
BytesLt(a, b) == LtFrom(a, b, 1)
BytesLe(a, b) == ~BytesLt(b, a)

Fill(n, v) == [i \in 1..n |-> v]

RECURSIVE Concat(_)
Concat(ss) == IF ss = <<>> THEN <<>> ELSE Head(ss) \o Concat(Tail(ss))

(* the keys of a finite set in increasing byte order *)
RECURSIVE SortKeys(_)
SortKeys(S) ==
  IF S = {} THEN <<>>
  ELSE LET m == CHOOSE x \in S : \A y \in S : BytesLe(x, y)
       IN  <<m>> \o SortKeys(S \ {m})

(* The records of a byte string, cut every HASH_SIZE bytes, the last one   *)
(* possibly short: range(0, len, HASH_SIZE) with slices                    *)
Records(data, size) ==
  [i \in 1..((Len(data) + size - 1) \div size) |->
      Slice(data, (i - 1) * size, i * size)]

(* the set of records of a byte string *)
RecordSet(data) == { Records(data, HASH_SIZE)[i] : i \in 1..Len(Records(data, HASH_SIZE)) }

(***************************************************************************)
(* The key universe: 32-byte keys <<b0, 0, 0, b3, 0, ..., 0, last>>        *)
(***************************************************************************)
MkKey(b0, b3, last) ==
  [i \in 1..HASH_SIZE |->
      IF i = 1 THEN b0 ELSE IF i = PREFIX_SIZE THEN b3
      ELSE IF i = HASH_SIZE THEN last ELSE 0]

Keys ==
  { MkKey(0, 0, 0), MkKey(0, 0, 255),
    MkKey(64, 0, 0), MkKey(64, 0, 9), MkKey(64, 1, 1) }

PrefixOf(k) == Slice(k, 0, PREFIX_SIZE)

(* SHA-256 digests that share their first four bytes: the last 27 bytes of  *)
(* KeyA followed by the first 5 bytes of KeyB are the 32 bytes of KeyAB     *)
KeyA == Fill(HASH_SIZE, 64)
KeyB == Fill(PREFIX_SIZE, 64) \o <<65>> \o Fill(HASH_SIZE - PREFIX_SIZE - 1, 64)
KeyAB == Fill(HASH_SIZE - 1, 64) \o <<65>>
KeyC == Fill(HASH_SIZE - 1, 64) \o <<66>>
Prefixes == { PrefixOf(k) : k \in Keys } \cup { <<128, 0, 0, 0>> }

(***************************************************************************)
(* MemTable: the red-black tree of memtable.py.  nodes[0] is the NIL       *)
(* sentinel; nodes[1..n] are the Node objects in creation order.           *)
(***************************************************************************)
NewNode(red, parent, key) ==
  [key |-> key, red |-> red, parent |-> parent, left |-> NIL, right |-> NIL]

EmptyMemTable ==
  [root |-> NIL, elements |-> 0,
   nodes |-> [i \in {0} |-> NewNode(FALSE, None, <<>>)]]

AddNode(t, nd) ==
  LET n == Cardinality(DOMAIN t.nodes)
  IN  [t EXCEPT !.nodes = [i \in 0..n |-> IF i = n THEN nd ELSE t.nodes[i]]]

LastNode(t) == Cardinality(DOMAIN t.nodes) - 1

SetF(t, id, f, v) == [t EXCEPT !.nodes[id][f] = v]

(* the first half of a rotation: new_parent takes the place of node       *)
(* under node's parent, or becomes the root                                *)
ReplaceChild(t, node, new_parent) ==
  IF node # t.root
  THEN SetF(IF node = t.nodes[t.nodes[node].parent].left
            THEN SetF(t, t.nodes[node].parent, "left", new_parent)
            ELSE SetF(t, t.nodes[node].parent, "right", new_parent),
            new_parent, "parent", t.nodes[node].parent)
  ELSE SetF([t EXCEPT !.root = new_parent], new_parent, "parent", None)

(* the second half of right_rotate: node becomes the right child of        *)
(* new_parent and adopts its former right subtree                          *)
RelinkRight(t, node, new_parent) ==
  SetF(SetF(SetF(SetF(t, node, "parent", new_parent),
                 node, "left", t.nodes[new_parent].right),
            t.nodes[new_parent].right, "parent", node),
       new_parent, "right", node)

(* the second half of left_rotate *)
RelinkLeft(t, node, new_parent) ==
  SetF(SetF(SetF(SetF(t, node, "parent", new_parent),
                 node, "right", t.nodes[new_parent].left),
            t.nodes[new_parent].left, "parent", node),
       new_parent, "left", node)

right_rotate(t, node) ==
  RelinkRight(ReplaceChild(t, node, t.nodes[node].left), node, t.nodes[node].left)

left_rotate(t, node) ==
  RelinkLeft(ReplaceChild(t, node, t.nodes[node].right), node, t.nodes[node].right)

(* CASE 1 of fix_insert leaving the uncle red *)
recolor_without_uncle(t, parent, uncle, grandparent) ==
  SetF(SetF(t, parent, "red", FALSE), grandparent, "red", TRUE)

(* CASE 1 of fix_insert: parent and uncle become black, grandparent red *)
Recolor(t, parent, uncle, grandparent) ==
  SetF(SetF(SetF(t, parent, "red", FALSE), uncle, "red", FALSE),
       grandparent, "red", TRUE)

(* end of CASE 2 of fix_insert: the colours after the rotation *)
RecolorRotated(t, node, grandparent) ==
  SetF(SetF(t, t.nodes[node].parent, "red", t.nodes[grandparent].red),
       grandparent, "red", TRUE)

RECURSIVE fix_insert(_, _)

(* one iteration of the loop of fix_insert *)
FixStep(t, node, parent, grandparent) ==
  IF parent = t.nodes[grandparent].left
  THEN IF t.nodes[t.nodes[grandparent].right].red
       THEN fix_insert(Recolor(t, parent, t.nodes[grandparent].right, grandparent),
                       grandparent)
       ELSE IF node = t.nodes[parent].right
       THEN fix_insert(RecolorRotated(right_rotate(left_rotate(t, parent), grandparent),
                                      parent, grandparent), parent)
       ELSE fix_insert(RecolorRotated(right_rotate(t, grandparent), node, grandparent),
                       node)
  ELSE IF t.nodes[t.nodes[grandparent].left].red
       THEN fix_insert(Recolor(t, parent, t.nodes[grandparent].left, grandparent),
                       grandparent)
       ELSE IF node = t.nodes[parent].left
       THEN fix_insert(RecolorRotated(left_rotate(right_rotate(t, parent), grandparent),
                                      parent, grandparent), parent)
       ELSE fix_insert(RecolorRotated(left_rotate(t, grandparent), node, grandparent),
                       node)

fix_insert(t, node) ==
  IF node = t.root \/ ~t.nodes[t.nodes[node].parent].red
  THEN SetF(t, t.root, "red", FALSE)
  ELSE FixStep(t, node, t.nodes[node].parent, t.nodes[t.nodes[node].parent].parent)

(* The descent of insert: the node under which key is linked, or NIL when  *)
(* the key is already in the tree                                          *)
RECURSIVE InsertParent_no_equal(_, _, _, _)
InsertParent_no_equal(t, key, current, parent) ==
  IF current = NIL THEN parent
  ELSE InsertParent_no_equal(t, key,
                             IF BytesLt(key, t.nodes[current].key)
                             THEN t.nodes[current].left ELSE t.nodes[current].right,
                             current)

RECURSIVE InsertParent(_, _, _, _)
InsertParent(t, key, current, parent) ==
  IF current = NIL THEN parent
  ELSE IF key = t.nodes[current].key THEN NIL
  ELSE InsertParent(t, key,
                    IF BytesLt(key, t.nodes[current].key)
                    THEN t.nodes[current].left ELSE t.nodes[current].right,
                    current)

(* insert: the new red node, the last one created, becomes a child of parent *)
LinkNew(t, parent, key) ==
  IF BytesLt(key, t.nodes[parent].key)
  THEN SetF(t, parent, "left", LastNode(t))
  ELSE SetF(t, parent, "right", LastNode(t))

(* insert below the node found by the descent *)
InsertUnder(t, key, parent) ==
  IF parent = NIL THEN t
  ELSE [fix_insert(LinkNew(AddNode(t, NewNode(TRUE, parent, key)), parent, key),
                   LastNode(t) + 1)
          EXCEPT !.elements = t.elements + 1]

(* MemTable.insert: the tree after the call *)
insert(t, key) ==
  IF t.elements = 0
  THEN [AddNode(t, NewNode(FALSE, None, key))
          EXCEPT !.root = LastNode(t) + 1, !.elements = 1]
  ELSE InsertUnder(t, key, InsertParent(t, key, t.root, None))

(* MemTable.insert: the value returned *)
insert_returns(t, key) ==
  IF t.elements = 0 THEN TRUE ELSE InsertParent(t, key, t.root, None) # NIL

(* MemTable.get / __contains__ *)
RECURSIVE GetFrom(_, _, _)
GetFrom(t, key, node) ==
  IF node = NIL THEN FALSE
  ELSE IF key = t.nodes[node].key THEN TRUE
  ELSE GetFrom(t, key, IF BytesLt(key, t.nodes[node].key)
                       THEN t.nodes[node].left ELSE t.nodes[node].right)

MemContains(t, key) == GetFrom(t, key, t.root)

(* iter_traverse yielding the key of a node before its left subtree *)
RECURSIVE iter_traverse_preorder(_, _)
iter_traverse_preorder(t, node) ==
  IF node = NIL THEN <<>>
  ELSE <<t.nodes[node].key>> \o iter_traverse_preorder(t, t.nodes[node].left)
       \o iter_traverse_preorder(t, t.nodes[node].right)

(* MemTable.__iter__: the keys in in-order *)
RECURSIVE iter_traverse(_, _)
iter_traverse(t, node) ==
  IF node = NIL THEN <<>>
  ELSE iter_traverse(t, t.nodes[node].left) \o <<t.nodes[node].key>>
       \o iter_traverse(t, t.nodes[node].right)

MemIter(t) == iter_traverse(t, t.root)

MemLen(t) == t.elements

(* range_lookup_traverse with an exclusive lower bound *)
RECURSIVE range_lookup_traverse_excl(_, _, _, _)
range_lookup_traverse_excl(t, node, lower_bound, upper_bound) ==
  IF node = NIL THEN <<>>
  ELSE LET key == t.nodes[node].key
       IN  (IF BytesLt(lower_bound, key)
            THEN range_lookup_traverse_excl(t, t.nodes[node].left, lower_bound, upper_bound)
            ELSE <<>>)
           \o (IF BytesLt(lower_bound, key) /\ BytesLe(key, upper_bound)
               THEN key ELSE <<>>)
           \o (IF BytesLt(key, upper_bound)
               THEN range_lookup_traverse_excl(t, t.nodes[node].right, lower_bound, upper_bound)
               ELSE <<>>)

(* range_lookup_traverse with an exclusive upper bound *)
RECURSIVE range_lookup_traverse_below(_, _, _, _)
range_lookup_traverse_below(t, node, lower_bound, upper_bound) ==
  IF node = NIL THEN <<>>
  ELSE LET key == t.nodes[node].key
       IN  (IF BytesLt(lower_bound, key)
            THEN range_lookup_traverse_below(t, t.nodes[node].left, lower_bound, upper_bound)
            ELSE <<>>)
           \o (IF BytesLe(lower_bound, key) /\ BytesLt(key, upper_bound)
               THEN key ELSE <<>>)
           \o (IF BytesLt(key, upper_bound)
               THEN range_lookup_traverse_below(t, t.nodes[node].right, lower_bound, upper_bound)
               ELSE <<>>)

(* MemTable.range_lookup: the bytes of the keys found *)
RECURSIVE range_lookup_traverse(_, _, _, _)
range_lookup_traverse(t, node, lower_bound, upper_bound) ==
  IF node = NIL THEN <<>>
  ELSE LET key == t.nodes[node].key
       IN  (IF BytesLt(lower_bound, key)
            THEN range_lookup_traverse(t, t.nodes[node].left, lower_bound, upper_bound)
            ELSE <<>>)
           \o (IF BytesLe(lower_bound, key) /\ BytesLe(key, upper_bound)
               THEN key ELSE <<>>)
           \o (IF BytesLt(key, upper_bound)
               THEN range_lookup_traverse(t, t.nodes[node].right, lower_bound, upper_bound)
               ELSE <<>>)

MemRangeLookup(t, lower_bound, upper_bound) ==
  range_lookup_traverse(t, t.root, lower_bound, upper_bound)

(***************************************************************************)
(* Index files: idx_builder.py and idx_reader.py.  db[d] is the sequence   *)
(* idx_001.bin, idx_002.bin, ... of directory db/partition{d}.             *)
(***************************************************************************)

(* build_idx: every key of the memtable, in iteration order *)
build_idx(memtable) == Concat(MemIter(memtable))

(* flush_to_idx that opens idx_{idx_num}.bin whether it exists or not       *)
first_idx_num(files, idx_num) == idx_num

(* the loop of flush_to_idx: idx_num steps over the numbers whose file      *)
(* exists; files[i] is idx_{i}.bin and the files of a directory are         *)
(* numbered without gaps                                                    *)
RECURSIVE unused_idx_num(_, _)
unused_idx_num(files, idx_num) ==
  IF idx_num <= Len(files)
  THEN unused_idx_num(files, idx_num + 1)
  ELSE idx_num

(* open(out_path, "wb") and the writes of build_idx: the file numbered      *)
(* idx_num holds data afterwards, every other file is as before             *)
WriteIdx(files, idx_num, data) ==
  [i \in 1..(IF idx_num > Len(files) THEN idx_num ELSE Len(files)) |->
      IF i = idx_num THEN data ELSE files[i]]

(* flush_to_idx: the first unused idx_NNN.bin of db/partition{partition}   *)
(* receives the memtable                                                    *)
flush_to_idx(files, memtable) ==
  WriteIdx(files, unused_idx_num(files, 1), build_idx(memtable))

(* first binary search of IndexReader.range_lookup *)
RECURSIVE LowerIndex(_, _, _, _)
LowerIndex(data, lower_bound, low, high) ==
  IF low < high
  THEN LET mid == (low + high) \div 2
           url_hash == Slice(data, mid * HASH_SIZE, mid * HASH_SIZE + HASH_SIZE)
       IN  IF BytesLt(url_hash, lower_bound)
           THEN LowerIndex(data, lower_bound, mid + 1, high)
           ELSE LowerIndex(data, lower_bound, low, mid)
  ELSE low

(* second binary search of IndexReader.range_lookup *)
RECURSIVE UpperIndex(_, _, _, _)
UpperIndex(data, upper_bound, low, high) ==
  IF low < high
  THEN LET mid == (low + high) \div 2
           url_hash == Slice(data, mid * HASH_SIZE, mid * HASH_SIZE + HASH_SIZE)
       IN  IF BytesLe(url_hash, upper_bound)
           THEN UpperIndex(data, upper_bound, mid + 1, high)
           ELSE UpperIndex(data, upper_bound, low, mid)
  ELSE low

FileRangeLookup(data, lower_bound, upper_bound) ==
  LET lower_index == LowerIndex(data, lower_bound, 0, HASHES_PER_IDX - 1)
      upper_index == UpperIndex(data, upper_bound, 0, HASHES_PER_IDX - 1)
  IN  Slice(data, lower_index * HASH_SIZE, upper_index * HASH_SIZE)

(* IndexReader.range_lookup over the files of the reader's directory *)
IdxRangeLookup(files, lower_bound, upper_bound) ==
  Concat([i \in 1..Len(files) |-> FileRangeLookup(files[i], lower_bound, upper_bound)])

(* the binary search of IndexReader.contains_hash in one file *)
RECURSIVE FileContains(_, _, _, _)
FileContains(data, key, low, high) ==
  IF low <= high
  THEN LET mid == (low + high) \div 2
           url_hash == Slice(data, mid * HASH_SIZE, mid * HASH_SIZE + HASH_SIZE)
       IN  IF key = url_hash THEN TRUE
           ELSE IF BytesLt(key, url_hash)
           THEN FileContains(data, key, low, mid - 1)
           ELSE FileContains(data, key, mid + 1, high)
  ELSE FALSE

(* IndexReader.contains_hash *)
contains_hash(files, key) ==
  \E i \in 1..Len(files) : FileContains(files[i], key, 0, HASHES_PER_IDX - 1)

(* build_memtable_from_WAL: one insert per HASH_SIZE bytes of the file *)
RECURSIVE InsertAll(_, _)
InsertAll(t, recs) ==
  IF recs = <<>> THEN t ELSE InsertAll(insert(t, Head(recs)), Tail(recs))

build_memtable_from_WAL(data) ==
  IF Len(data) = 0 THEN EmptyMemTable
  ELSE InsertAll(EmptyMemTable, Records(data, HASH_SIZE))

(***************************************************************************)
(* Which file each part of the server uses for internal partition q        *)
(***************************************************************************)
Partitions == 0..(PARTITIONS - 1)
FileNumbers == 0..PARTITIONS

(* the directories db/partition1 .. db/partition{P} exist; no code creates *)
(* db/partition0                                                           *)
Dirs == 1..PARTITIONS

(* lifespan: idx_readers[q] = IndexReader(q + 1) *)
ReaderDir(q) == q + 1
(* lifespan: memtables[q] = build_memtable_from_WAL(q + 1) *)
RecoveryWal(q) == q + 1
(* submit_malicious_url: wal_path is partition{partition}.bin *)
IngestWal(q) == q
(* submit_malicious_url: flush_to_idx(memtable, partition) *)
FlushDir(q) == q

(***************************************************************************)
(* Request handlers of server_main.py, each as the response and the state  *)
(* it leaves                                                               *)
(***************************************************************************)

(* fetch_hashes: the response body *)
fetch_hashes(bytes_prefix) ==
  LET lower_bound == bytes_prefix \o Fill(HASH_SIZE - PREFIX_SIZE, 0)
      upper_bound == bytes_prefix \o Fill(HASH_SIZE - PREFIX_SIZE, 255)
      partition == PARTITION_NUM(bytes_prefix[1])
  IN  MemRangeLookup(memtables[partition], lower_bound, upper_bound)
      \o IdxRangeLookup(db[ReaderDir(partition)], lower_bound, upper_bound)

(* the duplicate check of submit_malicious_url *)
IsBlacklisted(url_hash) ==
  LET partition == PARTITION_NUM(url_hash[1])
  IN  \/ contains_hash(db[ReaderDir(partition)], url_hash)
      \/ MemContains(memtables[partition], url_hash)

(* the memtables, write-ahead logs and index files of the server *)
Store == [memtables |-> memtables, wal |-> wal, db |-> db]

(* submit_malicious_url after the duplicate checks, on the store s: memtable *)
(* is the partition's memtable after memtable.insert(url_hash)              *)
IngestOn(s, url_hash, partition, memtable) ==
  IF MemLen(memtable) >= HASHES_PER_IDX
  THEN IF FlushDir(partition) \in Dirs
       THEN [status |-> 200, body |-> "",
             memtables |-> [s.memtables EXCEPT ![partition] = memtable],
             wal |-> [s.wal EXCEPT ![IngestWal(partition)] = <<>>],
             db |-> [s.db EXCEPT ![FlushDir(partition)] = flush_to_idx(@, memtable)]]
       ELSE (* open(out_path, "wb") raises FileNotFoundError *)
            [status |-> 500, body |-> "Internal Server Error",
             memtables |-> [s.memtables EXCEPT ![partition] = memtable],
             wal |-> s.wal, db |-> s.db]
  ELSE [status |-> 200, body |-> "",
        memtables |-> [s.memtables EXCEPT ![partition] = memtable],
        wal |-> [s.wal EXCEPT ![IngestWal(partition)] = @ \o url_hash],
        db |-> s.db]

Ingest(url_hash, partition, memtable) == IngestOn(Store, url_hash, partition, memtable)

(* the 400 answer of submit_malicious_url on the store s *)
RejectedOn(s) ==
  [status |-> 400, body |-> BAD_REQUEST,
   memtables |-> s.memtables, wal |-> s.wal, db |-> s.db]

Rejected == RejectedOn(Store)

(* submit_malicious_url on the store s: the response and the store it leaves *)
submit_on(s, url_hash) ==
  IF contains_hash(s.db[ReaderDir(PARTITION_NUM(url_hash[1]))], url_hash) THEN RejectedOn(s)
  ELSE IF MemContains(s.memtables[PARTITION_NUM(url_hash[1])], url_hash) THEN RejectedOn(s)
  ELSE IngestOn(s, url_hash, PARTITION_NUM(url_hash[1]),
                insert(s.memtables[PARTITION_NUM(url_hash[1])], url_hash))

(* submit_malicious_url: the response and the state it leaves *)
submit_malicious_url(url_hash) == submit_on(Store, url_hash)

(* IndexReader.get_idx_file_amount with the return value of a loop that   *)
(* forgets to step back from the first missing number                      *)
RECURSIVE get_idx_file_amount_next(_, _)
get_idx_file_amount_next(files, idx_num) ==
  IF idx_num <= Len(files)
  THEN get_idx_file_amount_next(files, idx_num + 1)
  ELSE idx_num

(* IndexReader.get_idx_file_amount: idx_num runs to the first number whose *)
(* file is missing                                                         *)
RECURSIVE get_idx_file_amount(_, _)
get_idx_file_amount(files, idx_num) ==
  IF idx_num <= Len(files)
  THEN get_idx_file_amount(files, idx_num + 1)
  ELSE idx_num - 1

(* get_blacklist_size: the sum over the readers, then over the memtables   *)
RECURSIVE SizeFrom(_)
SizeFrom(q) ==
  IF q >= PARTITIONS THEN 0
  ELSE get_idx_file_amount(db[ReaderDir(q)], 1) * HASHES_PER_IDX
       + MemLen(memtables[q]) + SizeFrom(q + 1)

get_blacklist_size == <<SizeFrom(0), PARTITIONS>>

(* a Python list of PARTITIONS items indexed by i: negative indices count  *)
(* from the end, anything else out of range raises IndexError (None)       *)
ListIndex(i) ==
  IF i >= 0 /\ i < PARTITIONS THEN i
  ELSE IF i < 0 /\ i >= 0 - PARTITIONS THEN i + PARTITIONS
  ELSE None

INTERNAL_ERROR == "Internal Server Error"

(* the first four bytes of every item of a sequence of keys, concatenated  *)
PrefixBytes(keys) == Concat([i \in 1..Len(keys) |-> Slice(keys[i], 0, 4)])

(* get_memtable_hash_prefixes reading memtables[partition]                 *)
get_memtable_hash_prefixes_same_index(partition) ==
  IF ListIndex(partition) = None
  THEN [status |-> 500, body |-> INTERNAL_ERROR]
  ELSE [status |-> 200,
        body |-> PrefixBytes(MemIter(memtables[ListIndex(partition)]))]

(* get_memtable_hash_prefixes: the prefixes of memtables[partition-1]      *)
get_memtable_hash_prefixes(partition) ==
  IF ListIndex(partition - 1) = None
  THEN [status |-> 500, body |-> INTERNAL_ERROR]
  ELSE [status |-> 200,
        body |-> PrefixBytes(MemIter(memtables[ListIndex(partition - 1)]))]

(* IndexReader.get_all_hash_prefixes: every file in HASH_SIZE reads         *)
get_all_hash_prefixes(files) ==
  Concat([i \in 1..Len(files) |-> PrefixBytes(Records(files[i], HASH_SIZE))])

(* get_idx_hash_prefixes: the prefixes idx_readers[partition-1] lists      *)
get_idx_hash_prefixes(partition) ==
  IF ListIndex(partition - 1) = None
  THEN [status |-> 500, body |-> INTERNAL_ERROR]
  ELSE [status |-> 200,
        body |-> get_all_hash_prefixes(db[ReaderDir(ListIndex(partition - 1))])]

(* A query parameter that is meant to be hexadecimal: the sequence of the  *)
(* values of its characters, NotHex for a character that is no hex digit.  *)
NotHex == 16

(* bytes.fromhex accepts the string (it raises ValueError otherwise)       *)
IsHex(str) ==
  /\ Len(str) % 2 = 0
  /\ \A i \in 1..Len(str) : str[i] # NotHex

(* bytes.fromhex of an accepted string *)
fromhex(str) == [i \in 1..(Len(str) \div 2) |-> 16 * str[2 * i - 1] + str[2 * i]]

(* bytes.hex *)
hex(bytes) ==
  [i \in 1..(2 * Len(bytes)) |->
     IF i % 2 = 1 THEN bytes[(i + 1) \div 2] \div 16 ELSE bytes[i \div 2] % 16]

(* GET /fetch-hashes?prefix=...: fromhex or bytes_prefix[0] may raise      *)
fetch_hashes_request(prefix) ==
  IF ~IsHex(prefix) \/ fromhex(prefix) = <<>>
  THEN [status |-> 500, body |-> INTERNAL_ERROR]
  ELSE [status |-> 200, body |-> fetch_hashes(fromhex(prefix))]

(* POST /submit-malicious-url?url=... with a string fromhex refuses: the   *)
(* handler raises before it touches the store                              *)
submit_request_malformed == [status |-> 500, body |-> INTERNAL_ERROR]

(* lifespan: the memtables a starting server builds *)
lifespan == [q \in Partitions |-> build_memtable_from_WAL(wal[RecoveryWal(q)])]

(***************************************************************************)
(* The client's Bloom filter.  A 32-bit word is the pair <<high, low>> of  *)
(* its 16-bit halves.                                                      *)
(***************************************************************************)
RECURSIVE BitXor(_, _, _)
BitXor(a, b, n) ==
  IF n = 0 THEN 0
  ELSE ((a + b) % 2) + 2 * BitXor(a \div 2, b \div 2, n - 1)

WXor(x, y) == <<BitXor(x[1], y[1], 16), BitXor(x[2], y[2], 16)>>

WAdd(x, y) ==
  <<(x[1] + y[1] + ((x[2] + y[2]) \div 65536)) % 65536, (x[2] + y[2]) % 65536>>

(* the low 32 bits of the product of two 16-bit numbers, byte by byte *)
MulLow(a0b0, mid, a1b1) ==
  <<(a1b1 + (mid \div 256) + ((a0b0 + (mid % 256) * 256) \div 65536)) % 65536,
    (a0b0 + (mid % 256) * 256) % 65536>>

Mul16(a, b) ==
  MulLow((a % 256) * (b % 256),
         (a \div 256) * (b % 256) + (a % 256) * (b \div 256),
         (a \div 256) * (b \div 256))

(* x * y modulo 2^32 *)
WMul(x, y) ==
  <<(Mul16(x[2], y[2])[1] + Mul16(x[1], y[2])[2] + Mul16(x[2], y[1])[2]) % 65536,
    Mul16(x[2], y[2])[2]>>

(* rotation to the left by 0 < r < 16 bits *)
WRotl(x, r) ==
  <<((x[1] * 2^r) % 65536) + (x[2] \div 2^(16 - r)),
    ((x[2] * 2^r) % 65536) + (x[1] \div 2^(16 - r))>>

(* shift to the right by 0 < r <= 16 bits *)
WShr(x, r) ==
  <<x[1] \div 2^r, ((x[1] % 2^r) * 2^(16 - r)) + (x[2] \div 2^r)>>

(* the little-endian word of up to four bytes *)
ByteAt(bytes, i) == IF i <= Len(bytes) THEN bytes[i] ELSE 0
WordOf(bytes) ==
  <<ByteAt(bytes, 3) + 256 * ByteAt(bytes, 4), ByteAt(bytes, 1) + 256 * ByteAt(bytes, 2)>>

(* MurmurHash3_x86_32, the function mmh3.hash computes *)
Scramble(k) == WMul(WRotl(WMul(k, <<52382, 11601>>), 15), <<7047, 13715>>)

BlockStep(h, k) ==
  WAdd(WMul(WRotl(WXor(h, Scramble(k)), 13), <<0, 5>>), <<58964, 27492>>)

RECURSIVE Blocks(_, _, _)
Blocks(h, key, i) ==
  IF 4 * i + 4 > Len(key) THEN h
  ELSE Blocks(BlockStep(h, WordOf(Slice(key, 4 * i, 4 * i + 4))), key, i + 1)

TailStep(h, tail) == IF tail = <<>> THEN h ELSE WXor(h, Scramble(WordOf(tail)))

ShiftMix(h, r) == WXor(h, WShr(h, r))

Fmix(h) ==
  ShiftMix(WMul(ShiftMix(WMul(ShiftMix(h, 16), <<34283, 51819>>), 13),
                <<49842, 44597>>), 16)

mmh3_hash(key, seed) ==
  Fmix(WXor(TailStep(Blocks(<<0, seed>>, key, 0),
                     Slice(key, 4 * (Len(key) \div 4), Len(key))),
            <<0, Len(key)>>))

(* -ln(BF_FP_PROBABILITY) / ln(2)^2 and -ln(BF_FP_PROBABILITY) / ln(2) in   *)
(* millionths, for BF_FP_PROBABILITY = 0.01                                *)
BITS_PER_ENTRY == 9585058
HASHES_PER_RATIO == 6643856

Max(a, b) == IF a > b THEN a ELSE b

(* the client holds no filter *)
NoFilter == [built |-> FALSE, hash_count |-> 0, size |-> 0, bit_array |-> {}]

(* bloom_filter.pkl does not exist.  A file that exists holds the pickled   *)
(* filter; added and known describe the filter it holds                     *)
NoFile == [bloom_filter |-> NoFilter, added |-> {}, known |-> {}]

(* BloomFilter.__init__ for entry_count > 0: bit_array is the set of the    *)
(* positions that hold a 1                                                  *)
BloomFilter(entry_count) ==
  [built |-> TRUE,
   hash_count |-> Max(1, ((entry_count + 24) * HASHES_PER_RATIO)
                         \div (entry_count * 1000000)),
   size |-> ((entry_count + 24) * BITS_PER_ENTRY) \div 1000000,
   bit_array |-> {}]

(* mmh3.hash of the 4-byte groups the servers of this model can send, for  *)
(* the seeds range(hash_count) of the smallest filter, computed once       *)
HashSeeds == 0..(BloomFilter(1).hash_count - 1)
mmh3_table ==
  [key \in Prefixes \cup {PrefixOf(KeyA)} |->
     [seed \in HashSeeds |-> mmh3_hash(key, seed)]]

(* BloomFilter.get_digest: the unsigned hash modulo the number of bits *)
DigestOf(w, size) == ((w[1] % size) * (65536 % size) + w[2]) % size
get_digest(bf, key, seed) == DigestOf(mmh3_table[key][seed], bf.size)

(* BloomFilter.add leaving out seed 0                                      *)
add_from_one(bf, key) ==
  [bf EXCEPT !.bit_array =
     @ \cup { get_digest(bf, key, i) : i \in 1..(bf.hash_count - 1) }]

(* BloomFilter.add *)
add(bf, key) ==
  [bf EXCEPT !.bit_array =
     @ \cup { get_digest(bf, key, i) : i \in 0..(bf.hash_count - 1) }]

(* BloomFilter.check *)
check(bf, key) ==
  \A i \in 0..(bf.hash_count - 1) : get_digest(bf, key, i) \in bf.bit_array

(***************************************************************************)
(* The state machine: one request at a time                                *)
(***************************************************************************)
NoCrash == [keys |-> {}, file |-> <<>>]

(* the request handlers that can be in flight at once; a handler that is    *)
(* not running a request is idle                                            *)
NumHandlers == 2
Handlers == 1..NumHandlers
Idle ==
  [op |-> "none", arg |-> <<>>, pc |-> "idle", status |-> 0, body |-> <<>>,
   before |-> {}, overlap |-> FALSE]

(* lifespan: log_lock, idx_lock and memtable_lock, 0 when nobody holds it *)
Locks == {"log", "idx", "memtable"}

(* while the requests in flight are one or two submissions and nothing      *)
(* else: the store when the first of them arrived, their handlers, keys and *)
(* answers (0 until answered)                                               *)
NoBatch == [memtables |-> <<>>, wal |-> <<>>, db |-> <<>>, reqs |-> <<>>]

Init ==
  /\ memtables = [q \in Partitions |-> EmptyMemTable]
  /\ wal = [f \in FileNumbers |-> <<>>]
  /\ db = [d \in FileNumbers |-> <<>>]
  /\ resp = [op |-> "start", arg |-> <<>>, status |-> 0, body |-> <<>>]
  /\ accepted = {}
  /\ submitted = {}
  /\ restarts = 0
  /\ ingests = 0
  /\ crashed = NoCrash
  /\ bloom_filter = NoFilter
  /\ added = {}
  /\ known = {}
  /\ filter_file = NoFile
  /\ inserted = {}
  /\ handlers = [h \in Handlers |-> Idle]
  /\ locks = [l \in Locks |-> 0]
  /\ batch = NoBatch

WouldFlush(url_hash) ==
  LET partition == PARTITION_NUM(url_hash[1])
  IN  /\ ~IsBlacklisted(url_hash)
      /\ MemLen(memtables[partition]) + 1 >= HASHES_PER_IDX

(* the state and the response after submit_malicious_url returned r *)
Served(url_hash, r) ==
  /\ memtables' = r.memtables
  /\ wal' = r.wal
  /\ db' = r.db
  /\ accepted' = IF r.status = 200 THEN accepted \cup {url_hash} ELSE accepted
  /\ submitted' = submitted \cup {url_hash}
  /\ ingests' = IF r.status = 400 THEN ingests ELSE ingests + 1

Respond(url_hash, r) ==
  /\ Served(url_hash, r)
  /\ resp' = [op |-> "submit", arg |-> url_hash,
              status |-> r.status, body |-> r.body]

Submit(url_hash) ==
  /\ ~IsBlacklisted(url_hash) => ingests < MaxIngests
  /\ Respond(url_hash, submit_malicious_url(url_hash))
  /\ UNCHANGED <<restarts, crashed, bloom_filter, added, known, filter_file, inserted, handlers, locks, batch>>

FetchHashes(bytes_prefix) ==
  /\ resp' = [op |-> "fetch", arg |-> bytes_prefix,
              status |-> 200, body |-> fetch_hashes(bytes_prefix)]
  /\ UNCHANGED <<memtables, wal, db, accepted, submitted, restarts, ingests, crashed>>
  /\ UNCHANGED <<bloom_filter, added, known, filter_file, inserted, handlers, locks, batch>>

FetchMetadata ==
  /\ resp' = [op |-> "metadata", arg |-> <<>>,
              status |-> 200, body |-> get_blacklist_size]
  /\ UNCHANGED <<memtables, wal, db, accepted, submitted, restarts, ingests, crashed>>
  /\ UNCHANGED <<bloom_filter, added, known, filter_file, inserted, handlers, locks, batch>>

(* the partition numbers a prefix request is made with *)
PartitionInputs == 0..(PARTITIONS + 1)

FetchPrefixesMemtable(partition) ==
  /\ resp' = [op |-> "prefixes_memtable", arg |-> partition,
              status |-> get_memtable_hash_prefixes(partition).status,
              body |-> get_memtable_hash_prefixes(partition).body]
  /\ UNCHANGED <<memtables, wal, db, accepted, submitted, restarts, ingests, crashed>>
  /\ UNCHANGED <<bloom_filter, added, known, filter_file, inserted, handlers, locks, batch>>

FetchPrefixesIndex(partition) ==
  /\ resp' = [op |-> "prefixes_index", arg |-> partition,
              status |-> get_idx_hash_prefixes(partition).status,
              body |-> get_idx_hash_prefixes(partition).body]
  /\ UNCHANGED <<memtables, wal, db, accepted, submitted, restarts, ingests, crashed>>
  /\ UNCHANGED <<bloom_filter, added, known, filter_file, inserted, handlers, locks, batch>>

(* prefix parameters that are no four bytes of hexadecimal: one byte too   *)
(* few, one too many, an odd number of digits, a letter g, nothing         *)
BadPrefixes ==
  { hex(<<64, 0, 0>>), hex(<<64, 0, 0, 0, 0>>), <<4, 0, 0>>,
    <<4, 0, 0, 0, 0, 0, 0, NotHex>>, <<>> }

BadUrls == { hex(MkKey(64, 0, 0)) \o <<NotHex>>, Tail(hex(MkKey(64, 0, 0))) }

FetchHashesHex(prefix) ==
  /\ resp' = [op |-> "fetch_hex", arg |-> prefix,
              status |-> fetch_hashes_request(prefix).status,
              body |-> fetch_hashes_request(prefix).body]
  /\ UNCHANGED <<memtables, wal, db, accepted, submitted, restarts, ingests, crashed>>
  /\ UNCHANGED <<bloom_filter, added, known, filter_file, inserted, handlers, locks, batch>>

SubmitMalformed(url) ==
  /\ ~IsHex(url)
  /\ resp' = [op |-> "submit_hex", arg |-> url,
              status |-> submit_request_malformed.status,
              body |-> submit_request_malformed.body]
  /\ UNCHANGED <<memtables, wal, db, accepted, submitted, restarts, ingests, crashed>>
  /\ UNCHANGED <<bloom_filter, added, known, filter_file, inserted, handlers, locks, batch>>

(* the server stops and starts again *)
Restart ==
  /\ restarts < MaxRestarts
  /\ memtables' = lifespan
  /\ restarts' = restarts + 1
  /\ resp' = [op |-> "restart", arg |-> <<>>, status |-> 0, body |-> <<>>]
  /\ crashed' = NoCrash
  /\ UNCHANGED <<wal, db, accepted, submitted, ingests, bloom_filter, added, known, filter_file, inserted, handlers, locks, batch>>

(* the state after the crash: the index file of memtable is written, the  *)
(* write-ahead logs are as before, the memtables are rebuilt               *)
CrashWith(url_hash, partition, memtable) ==
  /\ db' = [db EXCEPT ![FlushDir(partition)] = flush_to_idx(@, memtable)]
  /\ memtables' = lifespan
  /\ restarts' = restarts + 1
  /\ ingests' = ingests + 1
  /\ resp' = [op |-> "crash", arg |-> url_hash, status |-> 0, body |-> <<>>]
  /\ crashed' = [keys |-> RecordSet(build_idx(memtable)), file |-> build_idx(memtable)]
  /\ submitted' = submitted \cup {url_hash}
  /\ UNCHANGED <<wal, accepted, bloom_filter, added, known, filter_file, inserted, handlers, locks, batch>>

(* the server dies in a flush between flush_to_idx and the truncation of   *)
(* the write-ahead log, then starts again                                  *)
CrashInFlush(url_hash) ==
  /\ restarts < MaxRestarts
  /\ ingests < MaxIngests
  /\ WouldFlush(url_hash)
  /\ FlushDir(PARTITION_NUM(url_hash[1])) \in Dirs
  /\ CrashWith(url_hash, PARTITION_NUM(url_hash[1]),
               insert(memtables[PARTITION_NUM(url_hash[1])], url_hash))

Next ==
  \/ \E k \in Keys : Submit(k)
  \/ \E p \in Prefixes : FetchHashes(p)
  \/ FetchMetadata
  \/ \E p \in PartitionInputs : FetchPrefixesMemtable(p)
  \/ \E p \in PartitionInputs : FetchPrefixesIndex(p)
  \/ \E p \in BadPrefixes : FetchHashesHex(p)
  \/ \E u \in BadUrls : SubmitMalformed(u)
  \/ Restart
  \/ \E k \in Keys : CrashInFlush(k)

Spec == Init /\ [][Next]_vars

(***************************************************************************)
(* The client of client.py talking to the server, one call at a time.  A   *)
(* URL is named by its SHA-256 hash.                                       *)
(***************************************************************************)
RECURSIVE AddAll(_, _)
AddAll(bf, groups) ==
  IF groups = <<>> THEN bf ELSE AddAll(add(bf, Head(groups)), Tail(groups))

(* the PREFIX_SIZE slices of the prefix responses of partitions i.. in the  *)
(* order rebuild_bloomfilter adds them                                      *)
RECURSIVE FetchedGroups(_, _)
FetchedGroups(i, partitions) ==
  IF i > partitions THEN <<>>
  ELSE Records(get_memtable_hash_prefixes(i).body, PREFIX_SIZE)
       \o Records(get_idx_hash_prefixes(i).body, PREFIX_SIZE)
       \o FetchedGroups(i + 1, partitions)

(* some prefix request of the rebuild raises HTTPError *)
FetchFails(partitions) ==
  \E i \in 1..partitions :
     \/ get_memtable_hash_prefixes(i).status >= 400
     \/ get_idx_hash_prefixes(i).status >= 400

(* rebuild_bloomfilter for the metadata [entry_count, partitions]: the      *)
(* value returned (None with the exception that escapes) and the filter     *)
RebuildWith(entry_count, partitions) ==
  IF entry_count = 0
  THEN [result |-> None, body |-> "ZeroDivisionError",
        bloom_filter |-> bloom_filter, added |-> added]
  ELSE IF FetchFails(partitions)
  THEN [result |-> 1, body |-> "", bloom_filter |-> NoFilter, added |-> {}]
  ELSE [result |-> 0, body |-> "",
        bloom_filter |-> AddAll(BloomFilter(entry_count), FetchedGroups(1, partitions)),
        added |-> { FetchedGroups(1, partitions)[j] :
                      j \in 1..Len(FetchedGroups(1, partitions)) }]

rebuild_bloomfilter == RebuildWith(get_blacklist_size[1], get_blacklist_size[2])

(* needle in haystack for Python bytes *)
BytesIn(needle, haystack) ==
  \E off \in 0..(Len(haystack) - Len(needle)) :
     Slice(haystack, off, off + Len(needle)) = needle

(* check_url: 0 safe, 1 malicious *)
check_url(url_hash) ==
  IF bloom_filter.built /\ ~check(bloom_filter, Slice(url_hash, 0, PREFIX_SIZE))
  THEN 0
  ELSE IF BytesIn(url_hash, fetch_hashes(Slice(url_hash, 0, PREFIX_SIZE)))
  THEN 1
  ELSE 0

(* blacklist_url after the server answered with status: the value returned  *)
(* (None with the AttributeError of None.add) and the filter                *)
blacklist_url(url_hash, status) ==
  IF status >= 400
  THEN [result |-> 1, body |-> "", bloom_filter |-> NoFilter, added |-> {}]
  ELSE IF ~bloom_filter.built
  THEN [result |-> None, body |-> "AttributeError",
        bloom_filter |-> bloom_filter, added |-> added]
  ELSE [result |-> 0, body |-> "",
        bloom_filter |-> add(bloom_filter, Slice(url_hash, 0, 4)),
        added |-> added \cup { Slice(url_hash, 0, 4) }]

(* pickle.dump(self.bloom_filter, bf) into bloom_filter.pkl *)
pickle_dump(bf, added_keys, known_urls) ==
  [bloom_filter |-> bf, added |-> added_keys, known |-> known_urls]

Rebuild ==
  /\ resp' = [op |-> "rebuild", arg |-> <<>>,
              status |-> rebuild_bloomfilter.result, body |-> rebuild_bloomfilter.body]
  /\ bloom_filter' = rebuild_bloomfilter.bloom_filter
  /\ added' = rebuild_bloomfilter.added
  /\ known' = IF rebuild_bloomfilter.result = 0 THEN accepted ELSE known
  /\ filter_file' = IF rebuild_bloomfilter.result = 0
                    THEN pickle_dump(rebuild_bloomfilter.bloom_filter,
                                     rebuild_bloomfilter.added, accepted)
                    ELSE filter_file
  /\ UNCHANGED <<memtables, wal, db, accepted, submitted, restarts, ingests, crashed>>
  /\ UNCHANGED <<inserted, handlers, locks, batch>>

CheckUrl(url_hash) ==
  /\ resp' = [op |-> "check_url", arg |-> url_hash,
              status |-> check_url(url_hash), body |-> ""]
  /\ UNCHANGED <<memtables, wal, db, accepted, submitted, restarts, ingests, crashed>>
  /\ UNCHANGED <<bloom_filter, added, known, filter_file, inserted, handlers, locks, batch>>

Blacklisted(url_hash, r) ==
  /\ resp' = [op |-> "blacklist_url", arg |-> url_hash,
              status |-> r.result, body |-> r.body]
  /\ bloom_filter' = r.bloom_filter
  /\ added' = r.added
  /\ known' = IF r.result = 0 THEN known \cup {url_hash} ELSE known
  /\ filter_file' = IF r.result = 0
                    THEN pickle_dump(r.bloom_filter, r.added, known \cup {url_hash})
                    ELSE filter_file

BlacklistUrl(url_hash) ==
  /\ ~IsBlacklisted(url_hash) => ingests < MaxIngests
  /\ Served(url_hash, submit_malicious_url(url_hash))
  /\ Blacklisted(url_hash, blacklist_url(url_hash, submit_malicious_url(url_hash).status))
  /\ UNCHANGED <<restarts, crashed, inserted, handlers, locks, batch>>

(* Client.__init__ with the given bloom_filter.pkl: the filter is loaded    *)
(* from the file when it exists and rebuilt from the server otherwise; a    *)
(* client whose constructor raised holds no filter                          *)
client_init(file) ==
  IF file.bloom_filter.built
  THEN [loaded |-> TRUE, result |-> 0, body |-> "",
        bloom_filter |-> file.bloom_filter, added |-> file.added,
        known |-> file.known, filter_file |-> file]
  ELSE IF rebuild_bloomfilter.result = 0
  THEN [loaded |-> FALSE, result |-> 0, body |-> "",
        bloom_filter |-> rebuild_bloomfilter.bloom_filter,
        added |-> rebuild_bloomfilter.added, known |-> accepted,
        filter_file |-> pickle_dump(rebuild_bloomfilter.bloom_filter,
                                    rebuild_bloomfilter.added, accepted)]
  ELSE [loaded |-> FALSE, result |-> rebuild_bloomfilter.result,
        body |-> rebuild_bloomfilter.body,
        bloom_filter |-> NoFilter, added |-> {}, known |-> {},
        filter_file |-> file]

(* the client program is started again *)
ClientStart ==
  /\ resp' = [op |-> "client_start",
              arg |-> IF client_init(filter_file).loaded THEN "loaded" ELSE "rebuilt",
              status |-> client_init(filter_file).result,
              body |-> client_init(filter_file).body]
  /\ bloom_filter' = client_init(filter_file).bloom_filter
  /\ added' = client_init(filter_file).added
  /\ known' = client_init(filter_file).known
  /\ filter_file' = client_init(filter_file).filter_file
  /\ UNCHANGED <<memtables, wal, db, accepted, submitted, restarts, ingests, crashed>>
  /\ UNCHANGED <<inserted, handlers, locks, batch>>

(* the URLs of the client runs *)
ClientKeys == { MkKey(0, 0, 0), MkKey(64, 0, 0), MkKey(64, 1, 1) }

NextClient ==
  \/ \E k \in ClientKeys : Submit(k)
  \/ Restart
  \/ Rebuild
  \/ \E k \in ClientKeys : CheckUrl(k)
  \/ \E k \in ClientKeys : BlacklistUrl(k)
  \/ ClientStart

SpecClient == Init /\ [][NextClient]_vars

(***************************************************************************)
(* The client checking URLs whose digests share a prefix                   *)
(***************************************************************************)
(* the digests submitted and the digests checked *)
OverlapKeys == { KeyA, KeyB, KeyC }
CheckedKeys == { KeyA, KeyB, KeyAB, KeyC }

NextOverlap ==
  \/ \E k \in OverlapKeys : Submit(k)
  \/ Rebuild
  \/ \E k \in CheckedKeys : CheckUrl(k)
  \/ \E k \in OverlapKeys : BlacklistUrl(k)

SpecOverlap == Init /\ [][NextOverlap]_vars

(***************************************************************************)
(* One MemTable, memtables[0], driven by arbitrary calls of its methods    *)
(***************************************************************************)
MemInputs == Keys

(* the bounds of the range lookups: keys of the table, a key between two    *)
(* of them and a short byte string                                          *)
RangeBounds == { MkKey(0, 0, 255), MkKey(64, 0, 9), MkKey(64, 0, 1), <<64>> }

MemInsert(key) ==
  /\ memtables' = [memtables EXCEPT ![0] = insert(@, key)]
  /\ resp' = [op |-> "insert", arg |-> key,
              status |-> IF insert_returns(memtables[0], key) THEN 1 ELSE 0,
              body |-> <<>>]
  /\ inserted' = inserted \cup {key}
  /\ UNCHANGED <<wal, db, accepted, submitted, restarts, ingests, crashed>>
  /\ UNCHANGED <<bloom_filter, added, known, filter_file, handlers, locks, batch>>

MemIterate ==
  /\ resp' = [op |-> "iter", arg |-> <<>>,
              status |-> MemLen(memtables[0]), body |-> MemIter(memtables[0])]
  /\ UNCHANGED <<memtables, wal, db, accepted, submitted, restarts, ingests, crashed>>
  /\ UNCHANGED <<bloom_filter, added, known, filter_file, inserted, handlers, locks, batch>>

MemRange(lower_bound, upper_bound) ==
  /\ resp' = [op |-> "range_lookup", arg |-> <<lower_bound, upper_bound>>,
              status |-> 0,
              body |-> MemRangeLookup(memtables[0], lower_bound, upper_bound)]
  /\ UNCHANGED <<memtables, wal, db, accepted, submitted, restarts, ingests, crashed>>
  /\ UNCHANGED <<bloom_filter, added, known, filter_file, inserted, handlers, locks, batch>>

NextMem ==
  \/ \E k \in MemInputs : MemInsert(k)
  \/ MemIterate
  \/ \E lo \in RangeBounds : \E hi \in RangeBounds : MemRange(lo, hi)

SpecMem == Init /\ [][NextMem]_vars

(***************************************************************************)
(* One MemTable, memtables[0], filled with distinct keys in every order.   *)
(* An insert of a key that is in the table returns at its line 37 and      *)
(* writes nothing, so the trees are those of arbitrary insert sequences.   *)
(***************************************************************************)
TreeKeys == Keys \cup { MkKey(128, 0, 0), MkKey(128, 0, 7), MkKey(200, 3, 3) }

TreeInsert(key) ==
  /\ key \notin inserted
  /\ MemInsert(key)

NextTree == \E k \in TreeKeys : TreeInsert(k)

SpecTree == Init /\ [][NextTree]_vars

(***************************************************************************)
(* One IndexReader over a directory, db[1], of one or two arbitrary index  *)
(* files that hold HASHES_PER_IDX strictly increasing keys each            *)
(***************************************************************************)
IndexFiles ==
  { Concat(SortKeys(S)) : S \in { T \in SUBSET Keys : Cardinality(T) = HASHES_PER_IDX } }

IndexDirs ==
  { <<f>> : f \in IndexFiles } \cup { <<f, g>> : f \in IndexFiles, g \in IndexFiles }

InitIdx ==
  /\ memtables = [q \in Partitions |-> EmptyMemTable]
  /\ wal = [f \in FileNumbers |-> <<>>]
  /\ db \in { [d \in FileNumbers |-> IF d = 1 THEN files ELSE <<>>] : files \in IndexDirs }
  /\ resp = [op |-> "start", arg |-> <<>>, status |-> 0, body |-> <<>>]
  /\ accepted = {}
  /\ submitted = {}
  /\ restarts = 0
  /\ ingests = 0
  /\ crashed = NoCrash
  /\ bloom_filter = NoFilter
  /\ added = {}
  /\ known = {}
  /\ filter_file = NoFile
  /\ inserted = {}
  /\ handlers = [h \in Handlers |-> Idle]
  /\ locks = [l \in Locks |-> 0]
  /\ batch = NoBatch

IdxRange(lower_bound, upper_bound) ==
  /\ resp' = [op |-> "idx_range", arg |-> <<lower_bound, upper_bound>>,
              status |-> 0,
              body |-> IdxRangeLookup(db[1], lower_bound, upper_bound)]
  /\ UNCHANGED <<memtables, wal, db, accepted, submitted, restarts, ingests, crashed>>
  /\ UNCHANGED <<bloom_filter, added, known, filter_file, inserted, handlers, locks, batch>>

IdxContains(key) ==
  /\ resp' = [op |-> "idx_contains", arg |-> key,
              status |-> IF contains_hash(db[1], key) THEN 1 ELSE 0, body |-> <<>>]
  /\ UNCHANGED <<memtables, wal, db, accepted, submitted, restarts, ingests, crashed>>
  /\ UNCHANGED <<bloom_filter, added, known, filter_file, inserted, handlers, locks, batch>>

NextIdx ==
  \/ \E lo \in RangeBounds : \E hi \in RangeBounds : IdxRange(lo, hi)
  \/ \E k \in Keys : IdxContains(k)

SpecIdx == InitIdx /\ [][NextIdx]_vars

(***************************************************************************)
(* Recovery of an arbitrary write-ahead log: the log of memtable 0 holds   *)
(* up to two distinct keys followed by a torn record                       *)
(***************************************************************************)
TornLengths == {0, 1, PREFIX_SIZE, HASH_SIZE - 1}

KeySeqs ==
  { <<>> } \cup { <<a>> : a \in Keys }
  \cup { ks \in { <<a, b>> : a \in Keys, b \in Keys } : ks[1] # ks[2] }

WalInputs ==
  { Concat(ks) \o Slice(MkKey(64, 1, 1), 0, n) : ks \in KeySeqs, n \in TornLengths }

InitWAL ==
  /\ memtables = [q \in Partitions |-> EmptyMemTable]
  /\ wal \in { [f \in FileNumbers |-> IF f = RecoveryWal(0) THEN w ELSE <<>>] :
                 w \in WalInputs }
  /\ db = [d \in FileNumbers |-> <<>>]
  /\ resp = [op |-> "start", arg |-> <<>>, status |-> 0, body |-> <<>>]
  /\ accepted = {}
  /\ submitted = {}
  /\ restarts = 0
  /\ ingests = 0
  /\ crashed = NoCrash
  /\ bloom_filter = NoFilter
  /\ added = {}
  /\ known = {}
  /\ filter_file = NoFile
  /\ inserted = {}
  /\ handlers = [h \in Handlers |-> Idle]
  /\ locks = [l \in Locks |-> 0]
  /\ batch = NoBatch

Recover ==
  /\ resp.op = "start"
  /\ memtables' = lifespan
  /\ resp' = [op |-> "recover", arg |-> <<>>, status |-> 0, body |-> <<>>]
  /\ UNCHANGED <<wal, db, accepted, submitted, restarts, ingests, crashed, bloom_filter, added, known, filter_file, inserted, handlers, locks, batch>>

NextWAL == Recover

SpecWAL == InitWAL /\ [][NextWAL]_vars

(***************************************************************************)
(* The request handlers running concurrently on the event loop.  A step of *)
(* a handler starts at an `async with` of server_main.py, when the lock is *)
(* free, and runs to the next `async with` or to the end of the handler;   *)
(* pc is the line of the `async with` the handler waits at.                 *)
(***************************************************************************)
(* the data directory of a server that has run before: the index directory  *)
(* the reader of partition 1 uses holds one file of HASHES_PER_IDX keys of  *)
(* the partition, and the write-ahead logs recovery reads for memtables 0   *)
(* and 1 hold HASHES_PER_IDX - 1 keys each                                  *)
BootIndex == <<MkKey(64, 0, 0), MkKey(64, 0, 9), MkKey(64, 0, 20), MkKey(64, 0, 30)>>
BootWal(q) ==
  IF q = 0 THEN <<MkKey(0, 1, 1), MkKey(0, 1, 2), MkKey(0, 1, 3)>>
  ELSE IF q = 1 THEN <<MkKey(64, 1, 1), MkKey(64, 1, 2), MkKey(64, 1, 3)>>
  ELSE <<>>

BootDb ==
  [d \in FileNumbers |->
     IF d = ReaderDir(1) THEN <<Concat(SubSeq(BootIndex, 1, HASHES_PER_IDX))>> ELSE <<>>]

BootWals ==
  [f \in FileNumbers |->
     IF f - 1 \in Partitions /\ RecoveryWal(f - 1) = f
     THEN Concat(SubSeq(BootWal(f - 1), 1, Min(Len(BootWal(f - 1)), HASHES_PER_IDX - 1)))
     ELSE <<>>]

(* lifespan on that directory *)
InitConc ==
  /\ wal = BootWals
  /\ db = BootDb
  /\ memtables = [q \in Partitions |-> build_memtable_from_WAL(BootWals[RecoveryWal(q)])]
  /\ resp = [op |-> "start", arg |-> <<>>, status |-> 0, body |-> <<>>]
  /\ accepted = {}
  /\ submitted = {}
  /\ restarts = 0
  /\ ingests = 0
  /\ crashed = NoCrash
  /\ bloom_filter = NoFilter
  /\ added = {}
  /\ known = {}
  /\ filter_file = NoFile
  /\ inserted = {}
  /\ handlers = [h \in Handlers |-> Idle]
  /\ locks = [l \in Locks |-> 0]
  /\ batch = NoBatch

(* the keys submitted: one of the index file, a new one of partition 1, of  *)
(* partition 0 and of partition 2                                           *)
ConcKeys == { MkKey(64, 0, 0), MkKey(64, 0, 5), MkKey(0, 0, 0), MkKey(128, 0, 0) }

Requests ==
  { [op |-> "submit", arg |-> k] : k \in ConcKeys }
  \cup { [op |-> "fetch", arg |-> PrefixOf(MkKey(64, 0, 0))],
         [op |-> "prefixes_memtable", arg |-> <<2>>],
         [op |-> "prefixes_index", arg |-> <<2>>],
         [op |-> "metadata", arg |-> <<>>],
         [op |-> "logs", arg |-> <<>>] }

(* the first `async with` of a handler *)
FirstPc(op) ==
  IF op = "submit" THEN "s105"
  ELSE IF op = "fetch" THEN "f78"
  ELSE IF op = "prefixes_memtable" THEN "m158"
  ELSE IF op = "prefixes_index" THEN "i178"
  ELSE IF op = "metadata" THEN "b196"
  ELSE "g217"

(* the lock of the `async with` at pc *)
Awaits(pc) ==
  IF pc \in {"s117", "s140", "f93", "i185"} THEN "idx"
  ELSE IF pc \in {"s123", "f91", "m165", "b205"} THEN "memtable"
  ELSE "log"

(* leaving an `async with` block without releasing its lock *)
release_never(lk, l) == lk

(* asyncio.Lock: __aenter__ and __aexit__ of `async with` *)
acquire(lk, l, h) == [lk EXCEPT ![l] = h]
release(lk, l) == [lk EXCEPT ![l] = 0]

(* a whole `async with l:` block that contains no further `async with` *)
section(lk, l, h) == release(acquire(lk, l, h), l)

At(h, pc) == handlers[h].pc = pc /\ locks[Awaits(pc)] = 0
Move(h, pc) ==
  /\ handlers' = [handlers EXCEPT ![h].pc = pc]
  /\ UNCHANGED batch

(* the handler returns: the answer is noted for a submission of the batch *)
Finish(h, status) ==
  /\ handlers' = [handlers EXCEPT ![h] = Idle]
  /\ batch' = [batch EXCEPT !.reqs =
                 [i \in 1..Len(batch.reqs) |->
                    IF batch.reqs[i].h = h /\ batch.reqs[i].status = 0
                    THEN [batch.reqs[i] EXCEPT !.status = status]
                    ELSE batch.reqs[i]]]

PartitionOf(h) == PARTITION_NUM(handlers[h].arg[1])
lower_bound(h) == handlers[h].arg \o Fill(HASH_SIZE - PREFIX_SIZE, 0)
upper_bound(h) == handlers[h].arg \o Fill(HASH_SIZE - PREFIX_SIZE, 255)

(* the variables no step of a running handler changes *)
Quiet ==
  UNCHANGED <<resp, restarts, crashed, bloom_filter, added, known, filter_file, inserted,
              submitted, ingests>>

(* a request arrives at an idle handler *)
Arrive(h, r) ==
  /\ handlers[h].pc = "idle"
  /\ handlers' = [handlers EXCEPT ![h] =
        [Idle EXCEPT !.op = r.op, !.arg = r.arg, !.pc = FirstPc(r.op)]]
  /\ batch' =
       IF r.op = "submit" /\ \A g \in Handlers : handlers[g].pc = "idle"
       THEN [memtables |-> memtables, wal |-> wal, db |-> db,
             reqs |-> <<[h |-> h, arg |-> r.arg, status |-> 0]>>]
       ELSE IF r.op = "submit" /\ Len(batch.reqs) = 1 /\ batch.reqs[1].status = 0
       THEN [batch EXCEPT !.reqs = Append(@, [h |-> h, arg |-> r.arg, status |-> 0])]
       ELSE NoBatch
  /\ UNCHANGED <<memtables, wal, db, accepted, submitted, ingests, locks>>
  /\ UNCHANGED <<resp, restarts, crashed, bloom_filter, added, known, filter_file, inserted>>

(* `async with log_lock: write_to_log(...)` followed by the `async with`    *)
(* at line to                                                               *)
LogThen(h, from, to) ==
  /\ At(h, from)
  /\ locks' = section(locks, "log", h)
  /\ Move(h, to)
  /\ UNCHANGED <<memtables, wal, db, accepted>>
  /\ Quiet

(* `async with log_lock: write_to_log(...)` followed by the return *)
LogReturn(h, from) ==
  /\ At(h, from)
  /\ locks' = section(locks, "log", h)
  /\ Finish(h, 200)
  /\ UNCHANGED <<memtables, wal, db, accepted>>
  /\ Quiet

(* submit_malicious_url, lines 105-109 and 114-115 *)
Submit105(h) == LogThen(h, "s105", "s114")
Submit114(h) == LogThen(h, "s114", "s117")

(* line 117: the index check; the handler keeps idx_lock when the key is    *)
(* found                                                                    *)
Submit117(h) ==
  /\ At(h, "s117")
  /\ IF contains_hash(db[ReaderDir(PartitionOf(h))], handlers[h].arg)
     THEN /\ locks' = acquire(locks, "idx", h)
          /\ Move(h, "s119")
     ELSE /\ locks' = section(locks, "idx", h)
          /\ Move(h, "s123")
  /\ UNCHANGED <<memtables, wal, db, accepted>>
  /\ Quiet

(* lines 119-121: log, answer 400, leave the idx_lock block *)
Submit119(h) ==
  /\ At(h, "s119")
  /\ locks' = release(section(locks, "log", h), "idx")
  /\ Finish(h, 400)
  /\ UNCHANGED <<memtables, wal, db, accepted>>
  /\ Quiet

(* lines 123-133: the memtable check and memtable.insert; the handler keeps *)
(* memtable_lock                                                            *)
Submit123(h) ==
  /\ At(h, "s123")
  /\ locks' = acquire(locks, "memtable", h)
  /\ IF MemContains(memtables[PartitionOf(h)], handlers[h].arg)
     THEN /\ Move(h, "s127")
          /\ UNCHANGED memtables
     ELSE /\ memtables' = [memtables EXCEPT ![PartitionOf(h)] = insert(@, handlers[h].arg)]
          /\ Move(h, IF MemLen(insert(memtables[PartitionOf(h)], handlers[h].arg))
                          >= HASHES_PER_IDX
                     THEN "s134" ELSE "s148")
  /\ UNCHANGED <<wal, db, accepted>>
  /\ Quiet

(* lines 127-129: log, answer 400, leave the memtable_lock block *)
Submit127(h) ==
  /\ At(h, "s127")
  /\ locks' = release(section(locks, "log", h), "memtable")
  /\ Finish(h, 400)
  /\ UNCHANGED <<memtables, wal, db, accepted>>
  /\ Quiet

(* lines 134-135 *)
Submit134(h) == LogThen(h, "s134", "s140")

(* the range scans that have read the memtable of partition and not yet    *)
(* the index files see a flush of their partition                          *)
Overlapped(hs, partition) ==
  [g \in Handlers |->
     IF hs[g].pc = "f93" /\ PARTITION_NUM(hs[g].arg[1]) = partition
     THEN [hs[g] EXCEPT !.overlap = TRUE]
     ELSE hs[g]]

(* lines 140-143: flush_to_idx under idx_lock, then the truncation of the   *)
(* write-ahead log; flush_to_idx raises when the directory is missing and   *)
(* the exception leaves both blocks                                         *)
Submit140(h) ==
  /\ At(h, "s140")
  /\ IF FlushDir(PartitionOf(h)) \in Dirs
     THEN /\ db' = [db EXCEPT ![FlushDir(PartitionOf(h))] =
                       flush_to_idx(@, memtables[PartitionOf(h)])]
          /\ wal' = [wal EXCEPT ![IngestWal(PartitionOf(h))] = <<>>]
          /\ locks' = section(locks, "idx", h)
          /\ handlers' = [Overlapped(handlers, PartitionOf(h)) EXCEPT ![h].pc = "s145"]
          /\ UNCHANGED batch
     ELSE /\ locks' = release(section(locks, "idx", h), "memtable")
          /\ Finish(h, 500)
          /\ UNCHANGED <<wal, db>>
  /\ UNCHANGED <<memtables, accepted>>
  /\ Quiet

(* lines 145-146: log, leave the memtable_lock block *)
Submit145(h) ==
  /\ At(h, "s145")
  /\ locks' = release(section(locks, "log", h), "memtable")
  /\ Move(h, "s153")
  /\ UNCHANGED <<memtables, wal, db, accepted>>
  /\ Quiet

(* lines 148-151: log, append to the write-ahead log, leave the            *)
(* memtable_lock block                                                      *)
Submit148(h) ==
  /\ At(h, "s148")
  /\ locks' = release(section(locks, "log", h), "memtable")
  /\ wal' = [wal EXCEPT ![IngestWal(PartitionOf(h))] = @ \o handlers[h].arg]
  /\ Move(h, "s153")
  /\ UNCHANGED <<memtables, db, accepted>>
  /\ Quiet

(* lines 153-154: log, answer 200 *)
Submit153(h) ==
  /\ At(h, "s153")
  /\ locks' = section(locks, "log", h)
  /\ Finish(h, 200)
  /\ UNCHANGED <<memtables, wal, db, accepted>>
  /\ Quiet

(* the keys of a memtable and of the files of a directory *)
MemKeys(t) == { MemIter(t)[i] : i \in 1..Len(MemIter(t)) }

FileKeys(files) == UNION { RecordSet(files[i]) : i \in 1..Len(files) }

(* the keys of the range of handler h that are in the memtable of the       *)
(* partition or in an index file of its directories                         *)
Present(h) ==
  { k \in MemKeys(memtables[PartitionOf(h)])
          \cup FileKeys(db[FlushDir(PartitionOf(h))])
          \cup FileKeys(db[ReaderDir(PartitionOf(h))]) :
      BytesLe(lower_bound(h), k) /\ BytesLe(k, upper_bound(h)) }

(* fetch_hashes, lines 78-82 *)
Fetch78(h) == LogThen(h, "f78", "f91")

(* lines 91-92: the range scan starts with the memtable *)
Fetch91(h) ==
  /\ At(h, "f91")
  /\ locks' = section(locks, "memtable", h)
  /\ handlers' = [handlers EXCEPT
        ![h].pc = "f93",
        ![h].before = Present(h),
        ![h].body = MemRangeLookup(memtables[PartitionOf(h)],
                                   lower_bound(h), upper_bound(h))]
  /\ UNCHANGED <<memtables, wal, db, accepted, batch>>
  /\ Quiet

(* lines 93-94: the range scan ends with the index files *)
Fetch93(h) ==
  /\ At(h, "f93")
  /\ locks' = section(locks, "idx", h)
  /\ handlers' = [handlers EXCEPT
        ![h].pc = "f97",
        ![h].body = @ \o IdxRangeLookup(db[ReaderDir(PartitionOf(h))],
                                        lower_bound(h), upper_bound(h))]
  /\ UNCHANGED <<memtables, wal, db, accepted, batch>>
  /\ Quiet

(* lines 97-100 *)
Fetch97(h) == LogReturn(h, "f97")

(* get_memtable_hash_prefixes, lines 158-162, 165-168 and 170-173 *)
MemPrefixes158(h) == LogThen(h, "m158", "m165")

MemPrefixes165(h) ==
  /\ At(h, "m165")
  /\ locks' = section(locks, "memtable", h)
  /\ handlers' = [handlers EXCEPT
        ![h].pc = "m170",
        ![h].body = get_memtable_hash_prefixes(handlers[h].arg[1]).body]
  /\ UNCHANGED <<memtables, wal, db, accepted, batch>>
  /\ Quiet

MemPrefixes170(h) == LogReturn(h, "m170")

(* get_idx_hash_prefixes, lines 178-182, 185-186 and 188-191 *)
IdxPrefixes178(h) == LogThen(h, "i178", "i185")

IdxPrefixes185(h) ==
  /\ At(h, "i185")
  /\ locks' = section(locks, "idx", h)
  /\ handlers' = [handlers EXCEPT
        ![h].pc = "i188",
        ![h].body = get_idx_hash_prefixes(handlers[h].arg[1]).body]
  /\ UNCHANGED <<memtables, wal, db, accepted, batch>>
  /\ Quiet

IdxPrefixes188(h) == LogReturn(h, "i188")

(* get_blacklist_size: the sum over the readers *)
RECURSIVE IdxSizeFrom(_)
IdxSizeFrom(q) ==
  IF q >= PARTITIONS THEN 0
  ELSE get_idx_file_amount(db[ReaderDir(q)], 1) * HASHES_PER_IDX + IdxSizeFrom(q + 1)

(* get_blacklist_size: the sum over the memtables *)
RECURSIVE MemSizeFrom(_)
MemSizeFrom(q) ==
  IF q >= PARTITIONS THEN 0
  ELSE MemLen(memtables[q]) + MemSizeFrom(q + 1)

(* get_blacklist_size, lines 196-203: log, then the readers are summed      *)
(* without a lock                                                           *)
Metadata196(h) ==
  /\ At(h, "b196")
  /\ locks' = section(locks, "log", h)
  /\ handlers' = [handlers EXCEPT ![h].pc = "b205", ![h].body = <<IdxSizeFrom(0)>>]
  /\ UNCHANGED <<memtables, wal, db, accepted, batch>>
  /\ Quiet

(* lines 205-207 *)
Metadata205(h) ==
  /\ At(h, "b205")
  /\ locks' = section(locks, "memtable", h)
  /\ handlers' = [handlers EXCEPT
        ![h].pc = "b209",
        ![h].body = <<handlers[h].body[1] + MemSizeFrom(0), PARTITIONS>>]
  /\ UNCHANGED <<memtables, wal, db, accepted, batch>>
  /\ Quiet

(* lines 209-212 *)
Metadata209(h) == LogReturn(h, "b209")

(* get_logs, lines 217-224 *)
Logs217(h) == LogReturn(h, "g217")

NextConc ==
  \/ \E h \in Handlers : \E r \in Requests : Arrive(h, r)
  \/ \E h \in Handlers : Submit105(h)
  \/ \E h \in Handlers : Submit114(h)
  \/ \E h \in Handlers : Submit117(h)
  \/ \E h \in Handlers : Submit119(h)
  \/ \E h \in Handlers : Submit123(h)
  \/ \E h \in Handlers : Submit127(h)
  \/ \E h \in Handlers : Submit134(h)
  \/ \E h \in Handlers : Submit140(h)
  \/ \E h \in Handlers : Submit145(h)
  \/ \E h \in Handlers : Submit148(h)
  \/ \E h \in Handlers : Submit153(h)
  \/ \E h \in Handlers : Fetch78(h)
  \/ \E h \in Handlers : Fetch91(h)
  \/ \E h \in Handlers : Fetch93(h)
  \/ \E h \in Handlers : Fetch97(h)
  \/ \E h \in Handlers : MemPrefixes158(h)
  \/ \E h \in Handlers : MemPrefixes165(h)
  \/ \E h \in Handlers : MemPrefixes170(h)
  \/ \E h \in Handlers : IdxPrefixes178(h)
  \/ \E h \in Handlers : IdxPrefixes185(h)
  \/ \E h \in Handlers : IdxPrefixes188(h)
  \/ \E h \in Handlers : Metadata196(h)
  \/ \E h \in Handlers : Metadata205(h)
  \/ \E h \in Handlers : Metadata209(h)
  \/ \E h \in Handlers : Logs217(h)

SpecConc == InitConc /\ [][NextConc]_vars

(***************************************************************************)
(* Properties                                                              *)
(***************************************************************************)
StrictlyIncreasing(recs) ==
  \A i \in 1..Len(recs) : \A j \in 1..Len(recs) : i < j => BytesLt(recs[i], recs[j])

(* C1: without a restart, the first submission of a key is answered 200,   *)
(* every later submission of it is answered 400 with the "already          *)
(* blacklisted" body, and a rejected submission changes neither the        *)
(* memtables nor the write-ahead logs nor the index files.                 *)
C1_FirstAcceptedLaterRejected ==
  [][(resp'.op = "submit" /\ restarts' = 0) =>
       IF resp'.arg \notin submitted
       THEN resp'.status = 200
       ELSE /\ resp'.status = 400
            /\ resp'.body = BAD_REQUEST
            /\ UNCHANGED <<memtables, wal, db>>]_vars

(* C2: without a restart, the membership test of a key's partition         *)
(* (memtable or index file) is true exactly for the keys whose submission  *)
(* was accepted.                                                           *)
C2_EngineMembership ==
  restarts = 0 => \A k \in Keys : IsBlacklisted(k) <=> k \in accepted

C4_DurableAcrossRestart ==
  resp.op = "restart" =>
     \A k \in accepted : /\ IsBlacklisted(k)
                         /\ k \in RecordSet(fetch_hashes(PrefixOf(k)))

(* C5: a flush drains the memtable: after an accepted submission the       *)
(* memtable of the key's partition holds fewer than N keys.                *)
C5_FlushDrainsMemtable ==
  (resp.op = "submit" /\ resp.status = 200) =>
     MemLen(memtables[PARTITION_NUM(resp.arg[1])]) < HASHES_PER_IDX

(* C6: every index file of every directory holds exactly N keys, in        *)
(* strictly increasing order.                                              *)
C6_IndexFilesHoldN ==
  \A d \in FileNumbers : \A i \in 1..Len(db[d]) :
     /\ Len(db[d][i]) = HASHES_PER_IDX * HASH_SIZE
     /\ StrictlyIncreasing(Records(db[d][i], HASH_SIZE))

(* C7: the keys of a partition's memtable are in none of the partition's   *)
(* index files (those its flush writes and those its reader scans).        *)
C7_MemtableDisjointFromIndex ==
  \A q \in Partitions :
     MemKeys(memtables[q]) \cap (FileKeys(db[FlushDir(q)]) \cup FileKeys(db[ReaderDir(q)])) = {}

(* C8: the records of the write-ahead log from which a partition's         *)
(* memtable is rebuilt are exactly the keys of that memtable.              *)
C8_WalMirrorsMemtable ==
  \A q \in Partitions : RecordSet(wal[RecoveryWal(q)]) = MemKeys(memtables[q])

(* C9: recovery of a write-ahead log of L bytes yields floor(L/32) keys,   *)
(* each of 32 bytes; a trailing partial record is not inserted.            *)
C9_RecoveryCount ==
  resp.op = "recover" =>
     \A q \in Partitions :
        /\ MemLen(memtables[q]) = Len(wal[RecoveryWal(q)]) \div HASH_SIZE
        /\ \A k \in MemKeys(memtables[q]) : Len(k) = HASH_SIZE

(* C10: after a crash between the index write and the truncation of the    *)
(* log, and the restart, each key of the written index file is rejected    *)
(* with 400 on submission and returned by fetch-hashes for its prefix.     *)
C10_CrashAfterIndexWrite ==
  resp.op = "crash" =>
     \A k \in crashed.keys :
        /\ submit_malicious_url(k).status = 400
        /\ k \in RecordSet(fetch_hashes(PrefixOf(k)))

(* the sum of f over a finite set of integers *)
RECURSIVE SumOver(_, _)
SumOver(S, f) ==
  IF S = {} THEN 0
  ELSE LET x == CHOOSE y \in S : TRUE IN f[x] + SumOver(S \ {x}, f)

Groups(body) == { Records(body, PREFIX_SIZE)[i] : i \in 1..Len(Records(body, PREFIX_SIZE)) }

C13_FilterNoFalseNegatives ==
  /\ (resp.op = "rebuild" /\ resp.status = 0)
       => \A k \in accepted : check(bloom_filter, PrefixOf(k))
  /\ bloom_filter.built => \A x \in added : check(bloom_filter, x)

(* C14: check_url never answers SAFE (0) for a URL whose hash the server    *)
(* accepted, when the client holds no filter, rebuilt its filter after the  *)
(* acceptance or submitted the URL itself, whatever ingests, flushes and    *)
(* restarts came in between.                                                *)
C14_NeverSafeForAccepted ==
  (/\ resp.op = "check_url"
   /\ resp.arg \in accepted
   /\ (~bloom_filter.built \/ resp.arg \in known))
  => resp.status # 0

(* C15: a prefix request for a partition outside 1..P, a fetch-hashes      *)
(* whose prefix is not four bytes of well-formed hexadecimal and a submit   *)
(* whose url is not well-formed hexadecimal are each answered with 400.     *)
C15_InvalidInputIs400 ==
  /\ (resp.op \in {"prefixes_memtable", "prefixes_index"}
      /\ resp.arg \notin 1..PARTITIONS) => resp.status = 400
  /\ resp.op = "fetch_hex" => resp.status = 400
  /\ resp.op = "submit_hex" => resp.status = 400

(* C16: MemTable.insert(key) returns true exactly when key was not         *)
(* inserted before; after the call key is in the table and len() is the    *)
(* number of distinct keys inserted so far; inserting a key that is        *)
(* present changes neither the table nor len().                            *)
C16_InsertIsSetInsert ==
  [][ resp'.op = "insert" =>
        /\ (resp'.status = 1) <=> (resp'.arg \notin inserted)
        /\ MemContains(memtables'[0], resp'.arg)
        /\ \A k \in MemInputs : MemContains(memtables'[0], k) <=> k \in inserted'
        /\ MemLen(memtables'[0]) = Cardinality(inserted')
        /\ resp'.arg \in inserted => memtables'[0] = memtables[0] ]_vars

(* C16 witness: a key is inserted a second time into a table of five keys  *)
C16_Witness ==
  /\ resp.op = "insert"
  /\ resp.status = 0
  /\ Cardinality(inserted) = 5
  /\ MemLen(memtables[0]) = 5

(* C17: iterating a MemTable yields every distinct key inserted exactly    *)
(* once, in strictly increasing byte order.                                *)
C17_IterationSorted ==
  resp.op = "iter" =>
    /\ StrictlyIncreasing(resp.body)
    /\ { resp.body[i] : i \in 1..Len(resp.body) } = inserted
    /\ Len(resp.body) = Cardinality(inserted)

(* C17 witness: a table of five keys that were not inserted in increasing   *)
(* order is iterated                                                       *)
C17_Witness ==
  /\ resp.op = "iter"
  /\ Len(resp.body) = 5
  /\ memtables[0].nodes[1].key = MkKey(64, 0, 9)
  /\ memtables[0].nodes[2].key = MkKey(64, 1, 1)
  /\ memtables[0].nodes[3].key = MkKey(0, 0, 0)

(* the keys of a sequence that lie between two bounds, both included *)
InRange(keys, lo, hi) ==
  SelectSeq(keys, LAMBDA k : BytesLe(lo, k) /\ BytesLe(k, hi))

(* C18: MemTable.range_lookup(lo, hi) returns exactly the inserted keys k  *)
(* with lo <= k <= hi, concatenated in increasing order, and nothing when  *)
(* lo > hi.                                                                *)
C18_MemtableRangeLookup ==
  resp.op = "range_lookup" =>
    /\ resp.body = Concat(InRange(SortKeys(inserted), resp.arg[1], resp.arg[2]))
    /\ BytesLt(resp.arg[2], resp.arg[1]) => resp.body = <<>>

(* C18 witness: a lookup whose upper bound is a key of the table returns    *)
(* that key and another one but not the whole table                         *)
C18_Witness ==
  /\ resp.op = "range_lookup"
  /\ resp.arg[2] \in inserted
  /\ Len(resp.body) >= 2 * HASH_SIZE
  /\ Len(resp.body) < Cardinality(inserted) * HASH_SIZE
  /\ Slice(resp.body, Len(resp.body) - HASH_SIZE, Len(resp.body)) = resp.arg[2]

(* the file a flush has just added to directory d holds the first           *)
(* HASHES_PER_IDX keys of the memtable mt in increasing order, and the      *)
(* reader of the directory finds every key of the file                      *)
FlushedFileOk(files, mt) ==
  /\ MemLen(mt) >= HASHES_PER_IDX
  /\ Records(files[Len(files)], HASH_SIZE)
       = SubSeq(SortKeys(MemKeys(mt)), 1, HASHES_PER_IDX)
  /\ \A k \in RecordSet(files[Len(files)]) : contains_hash(files, k)

(* C19: when a memtable of at least N keys is flushed, the file written    *)
(* holds the first N keys of the memtable in increasing order and          *)
(* IndexReader.contains_hash is true for every key written.                *)
C19_IndexFileRoundtrip ==
  [][ (resp'.op = "submit" /\ resp'.status = 200) =>
        \A d \in FileNumbers :
          Len(db'[d]) > Len(db[d]) =>
            FlushedFileOk(db'[d], memtables'[PARTITION_NUM(resp'.arg[1])]) ]_vars

(* C20: over files of N strictly increasing keys each,                      *)
(* IndexReader.range_lookup(lo, hi) returns, file after file, exactly the   *)
(* keys k of the file with lo <= k <= hi, a key equal to hi and the first   *)
(* and the last key of a file included.                                     *)
C20_IndexRangeLookup ==
  resp.op = "idx_range" =>
    resp.body = Concat([i \in 1..Len(db[1]) |->
                   Concat(InRange(Records(db[1][i], HASH_SIZE), resp.arg[1], resp.arg[2]))])

(* C21: no key is in a memtable while it is neither in the write-ahead log  *)
(* nor in an index file of its partition (the log the ingest or the         *)
(* recovery of the key's partition uses, the directory its flush or its     *)
(* reader uses).                                                            *)
C21_MemtableKeyIsDurable ==
  \A q \in Partitions : \A k \in MemKeys(memtables[q]) :
     \/ k \in RecordSet(wal[IngestWal(PARTITION_NUM(k[1]))])
     \/ k \in RecordSet(wal[RecoveryWal(PARTITION_NUM(k[1]))])
     \/ k \in FileKeys(db[FlushDir(PARTITION_NUM(k[1]))])
     \/ k \in FileKeys(db[ReaderDir(PARTITION_NUM(k[1]))])

(* C22: a submission that fails with an I/O error leaves the memtables, the *)
(* write-ahead logs and the index files as they were.                       *)
C22_FailedWriteChangesNothing ==
  [][ (resp'.op = "submit" /\ resp'.status = 500) =>
        UNCHANGED <<memtables, wal, db>> ]_vars

(* C23: in every state, a crash in the middle of a flush included, each     *)
(* accepted key is in a write-ahead log or in an index file.                *)
C23_AcceptedKeyInWalOrIndex ==
  \A k \in accepted :
     \/ \E f \in FileNumbers : k \in RecordSet(wal[f])
     \/ \E d \in FileNumbers : k \in FileKeys(db[d])

(* C28: a step leaves every index directory as it was or adds one file      *)
(* numbered one past the largest existing number (001 in an empty           *)
(* directory); the files that existed keep their content.                   *)
C28_IndexFilesImmutable ==
  [][ \A d \in FileNumbers :
        \/ db'[d] = db[d]
        \/ /\ Len(db'[d]) = Len(db[d]) + 1
           /\ \A i \in 1..Len(db[d]) : db'[d][i] = db[d][i] ]_vars

(* a directory holds two files, the second written by a later flush *)
C28_Witness == \E d \in FileNumbers : Len(db[d]) >= 2

(* C29: every key of a memtable, of a write-ahead log and of an index       *)
(* directory belongs to that partition: memtable q holds keys of partition  *)
(* q, a key of partition q is in the log file recovery reads for memtable q *)
(* and in the directory the reader of q uses.                               *)
C29_PartitionsAreSeparate ==
  /\ \A q \in Partitions : \A k \in MemKeys(memtables[q]) : PARTITION_NUM(k[1]) = q
  /\ \A f \in FileNumbers : \A k \in RecordSet(wal[f]) :
        f = RecoveryWal(PARTITION_NUM(k[1]))
  /\ \A d \in FileNumbers : \A k \in FileKeys(db[d]) :
        d = ReaderDir(PARTITION_NUM(k[1]))

(* C30: when check_url asks the server, it reports MALICIOUS (1) exactly    *)
(* when the key equals one of the 32-byte records of the response at a      *)
(* 32-byte-aligned offset; an occurrence of the 32 bytes across two         *)
(* adjacent records does not count.                                         *)
C30_AlignedMatchOnly ==
  (/\ resp.op = "check_url"
   /\ bloom_filter.built => check(bloom_filter, PrefixOf(resp.arg)))
    => (resp.status = 1 <=> resp.arg \in RecordSet(fetch_hashes(PrefixOf(resp.arg))))

(* C24: a handler that holds the memtable lock waits for neither the idx    *)
(* lock nor the log lock, and a handler that holds the idx lock does not    *)
(* wait for the log lock (the order is log before idx before memtable).     *)
C24_LockOrder ==
  \A h \in Handlers :
    handlers[h].pc # "idle" =>
      /\ locks["memtable"] = h => Awaits(handlers[h].pc) \notin {"idx", "log"}
      /\ locks["idx"] = h => Awaits(handlers[h].pc) # "log"

(* the position of a lock in the order the handlers nest them in *)
Rank(l) == IF l = "memtable" THEN 1 ELSE IF l = "idx" THEN 2 ELSE 3

(* C25: when handlers are in flight, one of them waits for a lock that is   *)
(* free; a handler that has returned holds no lock; and the locks a handler *)
(* holds while it waits all come before the awaited one in one fixed order  *)
(* (memtable, idx, log), so that no cycle of waiting handlers exists for    *)
(* any number of them.                                                      *)
C25_DeadlockFree ==
  /\ (\E h \in Handlers : handlers[h].pc # "idle") =>
       \E h \in Handlers :
          handlers[h].pc # "idle" /\ locks[Awaits(handlers[h].pc)] = 0
  /\ \A h \in Handlers : handlers[h].pc = "idle" => \A l \in Locks : locks[l] # h
  /\ \A h \in Handlers : \A l \in Locks :
       (handlers[h].pc # "idle" /\ locks[l] = h) => Rank(l) < Rank(Awaits(handlers[h].pc))

(* a handler waits for the lock another handler holds while that one waits  *)
(* for a further lock                                                       *)
C25_Witness ==
  \E h \in Handlers : \E g \in Handlers :
     /\ h # g
     /\ handlers[h].pc # "idle"
     /\ handlers[g].pc # "idle"
     /\ locks[Awaits(handlers[h].pc)] = g
     /\ locks[Awaits(handlers[g].pc)] = 0

(* C26: a range scan during which a flush of its partition ran returns      *)
(* every key of the range that was in the memtable or in an index file when *)
(* the scan began, and only keys that are there when it ends.               *)
C26_ScanAcrossFlush ==
  [][ \A h \in Handlers :
        (handlers[h].pc = "f93" /\ handlers'[h].pc = "f97" /\ handlers[h].overlap) =>
          /\ handlers[h].before \subseteq RecordSet(handlers'[h].body)
          /\ RecordSet(handlers'[h].body) \subseteq Present(h) ]_vars

(* two submissions one after the other on the store s *)
After(r) == [memtables |-> r.memtables, wal |-> r.wal, db |-> r.db]
InOrder(s, a, b) ==
  [first |-> submit_on(s, a).status,
   second |-> submit_on(After(submit_on(s, a)), b).status,
   store |-> After(submit_on(After(submit_on(s, a)), b))]

(* the store and the answers are those of a before b *)
SameAs(s, a, b) ==
  /\ Store = InOrder(s, a.arg, b.arg).store
  /\ a.status = InOrder(s, a.arg, b.arg).first
  /\ b.status = InOrder(s, a.arg, b.arg).second

(* C27: when two concurrent submissions have returned, the memtables, the   *)
(* write-ahead logs, the index files and the answers are those of one of    *)
(* the two sequential orders; two submissions of the same key that was not  *)
(* blacklisted are answered 200 and 400.                                    *)
C27_IngestsSerialized ==
  ((\A h \in Handlers : handlers[h].pc = "idle") /\ Len(batch.reqs) = 2) =>
    /\ \/ SameAs(After(batch), batch.reqs[1], batch.reqs[2])
       \/ SameAs(After(batch), batch.reqs[2], batch.reqs[1])
    /\ (/\ batch.reqs[1].arg = batch.reqs[2].arg
        /\ submit_on(After(batch), batch.reqs[1].arg).status # 400)
         => {batch.reqs[1].status, batch.reqs[2].status} = {200, 400}

(* C31: after blacklist_url failed the client holds no filter in memory,    *)
(* and bloom_filter.pkl is deleted or treated as absent: a client started   *)
(* next does not load the old file but rebuilds the filter from the server. *)
C31_FailedSubmitDropsFilter ==
  [][ /\ (resp'.op = "blacklist_url" /\ resp'.status # 0) => ~bloom_filter'.built
      /\ (resp.op = "blacklist_url" /\ resp.status # 0 /\ resp'.op = "client_start")
           => resp'.arg = "rebuilt" ]_vars

(* C32: blacklist_url returns 0 whenever the server answered its request    *)
(* with 200, whatever the client did before, also when the client holds no  *)
(* filter; no error escapes it once the server has accepted the key.        *)
C32_AcceptedSubmitReturnsZero ==
  [][ (resp'.op = "blacklist_url" /\ submit_malicious_url(resp'.arg).status = 200)
        => resp'.status = 0 ]_vars

(* C33: when every request of rebuild_bloomfilter is answered without an    *)
(* error, the rebuild returns 0 and leaves a filter that can be used, for   *)
(* every totalCount of the metadata, 0 for an empty blacklist included.     *)
C33_RebuildForEveryCount ==
  [][ (resp'.op = "rebuild" /\ ~FetchFails(get_blacklist_size[2]))
        => /\ resp'.status = 0
           /\ bloom_filter'.built
           /\ bloom_filter'.size > 0
           /\ bloom_filter'.hash_count > 0 ]_vars

(* the black nodes on the paths from node down to NIL, NIL counted, or     *)
(* None when two of the paths disagree                                     *)
SameHeight(l, r, red) ==
  IF l = None \/ l # r THEN None ELSE IF red THEN l ELSE l + 1

RECURSIVE BlackHeight(_, _)
BlackHeight(t, node) ==
  IF node = NIL THEN 1
  ELSE SameHeight(BlackHeight(t, t.nodes[node].left),
                  BlackHeight(t, t.nodes[node].right), t.nodes[node].red)

(* no red node has a red child *)
NoRedRed(t) ==
  \A n \in 1..LastNode(t) :
     t.nodes[n].red => /\ ~t.nodes[t.nodes[n].left].red
                       /\ ~t.nodes[t.nodes[n].right].red

(* the root has no parent, every other node is a child of its parent, and  *)
(* every child names its parent                                            *)
ParentLinked(t) ==
  \A n \in 1..LastNode(t) :
     /\ IF n = t.root THEN t.nodes[n].parent = None
        ELSE /\ t.nodes[n].parent \in 1..LastNode(t)
             /\ n \in { t.nodes[t.nodes[n].parent].left,
                        t.nodes[t.nodes[n].parent].right }
     /\ t.nodes[n].left # NIL => t.nodes[t.nodes[n].left].parent = n
     /\ t.nodes[n].right # NIL => t.nodes[t.nodes[n].right].parent = n

RedBlack(t) ==
  /\ ~t.nodes[NIL].red
  /\ t.root = NIL <=> t.elements = 0
  /\ t.root # NIL => ~t.nodes[t.root].red
  /\ NoRedRed(t)
  /\ BlackHeight(t, t.root) # None
  /\ ParentLinked(t)
  /\ StrictlyIncreasing(MemIter(t))
  /\ Len(MemIter(t)) = LastNode(t)
  /\ t.elements = LastNode(t)

(* C34: after any sequence of MemTable.insert calls the tree is a valid     *)
(* red-black binary search tree: the root and the NIL sentinel are black,   *)
(* no red node has a red child, every path from the root to NIL holds the   *)
(* same number of black nodes, the keys are in search order, and the        *)
(* parent link of every node holding a key agrees with the child links.     *)
C34_RedBlackTree ==
  \A q \in Partitions : RedBlack(memtables[q])

(* C34 witness: eight keys inserted in increasing order; the last insert    *)
(* recolours at the bottom and then rotates at the root, which makes the    *)
(* fourth key the root                                                     *)
C34_Witness ==
  /\ resp.op = "insert"
  /\ memtables[0].elements = 8
  /\ \A i \in 1..7 : BytesLt(memtables[0].nodes[i].key, memtables[0].nodes[i + 1].key)
  /\ memtables[0].root = 4
  /\ memtables[0].nodes[6].red
  /\ ~memtables[0].nodes[5].red
  /\ ~memtables[0].nodes[7].red

====
